---- MODULE Spec2Model ----
(***************************************************************************)
(* Model of shamak1/playwright-azure-mfa-auth:                             *)
(*   - ImpersonationHelper (src/impersonation/impersonation-helper.ts)     *)
(*   - authenticate / globalSetup (src/login/authentication-setup.ts)      *)
(* Strings are tuples of characters so that trim() is computed.            *)
(***************************************************************************)
EXTENDS Integers, Sequences, FiniteSets, TLC

VARIABLES
    headers,    \* helper instance -> currentImpersonationHeaders (a header map)
    routes,     \* the page's registered route handlers, most recent first
    calls,      \* call slot -> a mutator call in flight, or NoCall
    lastCall,   \* the most recently settled mutator call (its promise outcome;
                \* `before` remembers the keys of the Header Set the call found)
    lastReq,    \* the most recent outgoing request and the headers it left with
    gs,         \* position of globalSetup ("none": authenticate is called by a test)
    pc,         \* position of authenticate: the page action it is about to await
    args,       \* the arguments authenticate was called with
    pageLog,    \* actions authenticate has invoked so far, each with its outcome
    thrown,     \* the error that left authenticate, "none" if none did
    browserOpen,\* the browser launched by globalSetup is still open
    snapshots,  \* number of session-state snapshots written to login/auth.json
    session,    \* what the identity provider has granted the page so far
    view,       \* the mapping the caller got from getCurrentImpersonationHeaders()
    active      \* the answer the caller got from isImpersonationActive()

impVars == <<headers, routes, calls, lastCall, lastReq>>
authVars == <<gs, pc, args, pageLog, thrown, browserOpen, snapshots>>
obsVars == <<view, active>>
vars == <<impVars, authVars, session, obsVars>>

----------------------------------------------------------------------------
(* Bounds *)

MaxLen == 2          \* longest identifier string drawn as an input
MaxCalls == 2        \* call slots (mutator calls that can be in flight)
MaxCredLen == 1      \* longest credential / environment string drawn as an input
MaxIdLen == 1        \* longest identifier drawn where queries, overlapping calls
                     \* or several helpers are explored
MaxHelpers == 2      \* helpers created on the one page

----------------------------------------------------------------------------
(* Strings *)

Chars == {" ", "a"}

RECURSIVE StrUpTo(_)
StrUpTo(n) == IF n = 0 THEN {<<>>}
              ELSE StrUpTo(n - 1) \cup
                   {Append(s, c) : s \in {t \in StrUpTo(n - 1) : Len(t) = n - 1}, c \in Chars}

Str == StrUpTo(MaxLen)

ShortStr == StrUpTo(MaxIdLen)

RECURSIVE TrimStart(_)
TrimStart(s) == IF s # <<>> /\ Head(s) = " " THEN TrimStart(Tail(s)) ELSE s

RECURSIVE TrimEnd(_)
TrimEnd(s) == IF s # <<>> /\ s[Len(s)] = " " THEN TrimEnd(SubSeq(s, 1, Len(s) - 1)) ELSE s

\* String.prototype.trim
Trim(s) == TrimEnd(TrimStart(s))

\* an argument that was not passed, an environment variable that is not set
Undef == <<"undefined">>

\* JavaScript truthiness of a string-or-undefined value
Truthy(s) == s # Undef /\ s # <<>>

\* the test only checks for a missing or empty string and forgets trim()
IsBlankNoTrim(s) == ~Truthy(s)

\* `!id || id.trim() === ''`
IsBlank(s) == ~Truthy(s) \/ Trim(s) = <<>>

----------------------------------------------------------------------------
(* Header maps *)

CallerObjectId == "CallerObjectId"
MSCRMCallerID == "MSCRMCallerID"
Accept == "accept"

HeaderNames == {CallerObjectId, MSCRMCallerID, Accept}

\* value a page request carries by itself; never equal to an identifier
OrigValue == <<"x">>

EmptyHeaders == [k \in {} |-> <<>>]

\* both impersonation keys are written
OneHeaderBoth(name, value) == [k \in {CallerObjectId, MSCRMCallerID} |-> value]

OneHeader(name, value) == [k \in {name} |-> value]

\* header maps a request of the page can carry before interception: accept is
\* always sent, either impersonation key may already be present
OrigHeaders == UNION {[ks -> {OrigValue}] : ks \in {d \in SUBSET HeaderNames : Accept \in d}}

\* the spread is applied the other way round: the request's own value wins
MergeOriginalWins(orig, imp) ==
    [k \in DOMAIN orig \cup DOMAIN imp |-> IF k \in DOMAIN orig THEN orig[k] ELSE imp[k]]

\* { ...headers, ...this.currentImpersonationHeaders }
Merge(orig, imp) ==
    [k \in DOMAIN orig \cup DOMAIN imp |-> IF k \in DOMAIN imp THEN imp[k] ELSE orig[k]]

----------------------------------------------------------------------------
(* Route table of the page *)

ApiPattern == "**/api/data/**"

Urls == {"/api/data/contacts", "/main.aspx"}

\* glob match of a request url against a route pattern
Matches(pattern, url) == pattern = ApiPattern /\ url = "/api/data/contacts"

RouteHandler(h) == [url |-> ApiPattern, owner |-> h]

\* page.unroute(url): drops every handler registered for that url pattern
Unrouted(rs, url) == SelectSeq(rs, LAMBDA r : r.url # url)

\* page.route(url, handler): the newest handler is consulted first
Routed(rs, r) == <<r>> \o rs

MatchingRoutes(rs, url) == SelectSeq(rs, LAMBDA r : Matches(r.url, url))

----------------------------------------------------------------------------
(* Mutator calls *)

OpAzureAD == "impersonateUserByAzureADObjectId"
OpUserId == "impersonateUserByUserId"
OpStop == "stopImpersonation"

NoCall == [op |-> "none"]
NoReq == [url |-> "none"]

CallIds == 1 .. MaxCalls
Helpers == DOMAIN headers

Idle == \A c \in CallIds : calls[c] = NoCall

FreeSlot == CHOOSE c \in CallIds : calls[c] = NoCall /\ \A d \in CallIds : calls[d] = NoCall => c <= d

NoView == [helper |-> 0]
NoAnswer == [helper |-> 0]

NoArgs == [userName |-> Undef, password |-> Undef, pageURL |-> Undef, otpSecret |-> Undef]

Init ==
    /\ headers = [h \in {1} |-> EmptyHeaders]
    /\ routes = <<>>
    /\ calls = [c \in CallIds |-> NoCall]
    /\ lastCall = NoCall
    /\ lastReq = NoReq
    /\ gs = "none"
    /\ pc = "notCalled"
    /\ args = NoArgs
    /\ pageLog = <<>>
    /\ thrown = "none"
    /\ browserOpen = FALSE
    /\ snapshots = 0
    /\ session = "anonymous"
    /\ view = NoView
    /\ active = NoAnswer

----------------------------------------------------------------------------
(* ImpersonationHelper: the three mutators *)

\* the rejected promise of a mutator whose argument fails validation
Rejected(h, op, arg) ==
    /\ lastCall' = [helper |-> h, op |-> op, arg |-> arg, before |-> DOMAIN headers[h],
                    ok |-> FALSE, log |-> <<>>]
    /\ UNCHANGED <<headers, routes, calls, lastReq>>

\* the new entry is merged into the existing Header Set instead of replacing it
AssignMerged(h, op, arg, newHeaders) ==
    /\ headers' = [headers EXCEPT ![h] = Merge(headers[h], newHeaders)]
    /\ calls' = [calls EXCEPT ![FreeSlot] =
                    [helper |-> h, op |-> op, arg |-> arg, before |-> DOMAIN headers[h],
                     pc |-> "unroute", log |-> <<"unroute">>]]
    /\ UNCHANGED <<routes, lastCall, lastReq>>

\* this.currentImpersonationHeaders = {...}; then setupRequestInterception()
\* runs up to its first await, which issues page.unroute
Assign(h, op, arg, newHeaders) ==
    /\ headers' = [headers EXCEPT ![h] = newHeaders]
    /\ calls' = [calls EXCEPT ![FreeSlot] =
                    [helper |-> h, op |-> op, arg |-> arg, before |-> DOMAIN headers[h],
                     pc |-> "unroute", log |-> <<"unroute">>]]
    /\ UNCHANGED <<routes, lastCall, lastReq>>

ImpersonateUserByAzureADObjectId(h, azureADObjectId) ==
    /\ \E c \in CallIds : calls[c] = NoCall
    /\ IF IsBlank(azureADObjectId)
       THEN Rejected(h, OpAzureAD, azureADObjectId)
       ELSE Assign(h, OpAzureAD, azureADObjectId,
                   OneHeader(CallerObjectId, azureADObjectId))

ImpersonateUserByUserId(h, userId) ==
    /\ \E c \in CallIds : calls[c] = NoCall
    /\ IF IsBlank(userId)
       THEN Rejected(h, OpUserId, userId)
       ELSE Assign(h, OpUserId, userId, OneHeader(MSCRMCallerID, userId))

\* the Header Set is not cleared
StopImpersonationKeepsHeaders(h) ==
    /\ \E c \in CallIds : calls[c] = NoCall
    /\ Assign(h, OpStop, <<>>, headers[h])

StopImpersonation(h) ==
    /\ \E c \in CallIds : calls[c] = NoCall
    /\ Assign(h, OpStop, <<>>, EmptyHeaders)

\* the test asks for more than one key
IsImpersonationActiveMoreThanOne(h) == Cardinality(DOMAIN headers[h]) > 1

\* Object.keys(this.currentImpersonationHeaders).length > 0
IsImpersonationActive(h) == Cardinality(DOMAIN headers[h]) > 0

\* { ...this.currentImpersonationHeaders }
GetCurrentImpersonationHeaders(h) == [k \in DOMAIN headers[h] |-> headers[h][k]]

----------------------------------------------------------------------------
(* The two queries, and what their caller does with the mapping it got *)

\* the caller calls isImpersonationActive() and keeps the answer
AskIsImpersonationActive(h) ==
    /\ active' = [helper |-> h, result |-> IsImpersonationActive(h)]
    /\ UNCHANGED <<impVars, view>>

\* the helper's own object is handed out
ReadCurrentImpersonationHeadersNoCopy(h) ==
    /\ view' = [helper |-> h, obj |-> headers[h], shared |-> TRUE, touched |-> FALSE]
    /\ UNCHANGED <<impVars, active>>

\* the caller calls getCurrentImpersonationHeaders() and keeps the mapping;
\* `shared` tells whether it is the helper's own object (the spread makes a new
\* one), `touched` whether the caller has changed it since
ReadCurrentImpersonationHeaders(h) ==
    /\ view' = [helper |-> h, obj |-> GetCurrentImpersonationHeaders(h),
                shared |-> FALSE, touched |-> FALSE]
    /\ UNCHANGED <<impVars, active>>

\* the object the caller holds becomes newObj; a shared object is the helper's too
CallerChanges(newObj) ==
    /\ view # NoView
    /\ view' = [view EXCEPT !.obj = newObj, !.touched = TRUE]
    /\ headers' = IF view.shared THEN [headers EXCEPT ![view.helper] = newObj] ELSE headers
    /\ UNCHANGED <<routes, calls, lastCall, lastReq, active>>

\* returned[name] = value
CallerSets(name, value) ==
    CallerChanges([k \in DOMAIN view.obj \cup {name} |->
                      IF k = name THEN value ELSE view.obj[k]])

\* delete returned[name]
CallerDeletes(name) ==
    /\ view # NoView /\ name \in DOMAIN view.obj
    /\ CallerChanges([k \in DOMAIN view.obj \ {name} |-> view.obj[k]])

----------------------------------------------------------------------------
(* setupRequestInterception, one action per awaited engine call *)

\* the existing handlers are left in place
SetupUnrouteSkipped(c) ==
    /\ calls[c] # NoCall /\ calls[c].pc = "unroute"
    /\ calls' = [calls EXCEPT ![c].pc = "check"]
    /\ UNCHANGED <<headers, routes, lastCall, lastReq>>

\* await this.page.unroute('**/api/data/**') takes effect
SetupUnroute(c) ==
    /\ calls[c] # NoCall /\ calls[c].pc = "unroute"
    /\ routes' = Unrouted(routes, ApiPattern)
    /\ calls' = [calls EXCEPT ![c].pc = "check"]
    /\ UNCHANGED <<headers, lastCall, lastReq>>

\* the handler is registered whatever the Header Set holds
SetupCheckAlways(c) ==
    /\ calls[c] # NoCall /\ calls[c].pc = "check"
    /\ calls' = [calls EXCEPT ![c].pc = "route", ![c].log = Append(@, "route")]
    /\ UNCHANGED <<headers, routes, lastCall, lastReq>>

\* the handler is never registered
SetupCheckNever(c) ==
    /\ calls[c] # NoCall /\ calls[c].pc = "check"
    /\ calls' = [calls EXCEPT ![c].pc = "return"]
    /\ UNCHANGED <<headers, routes, lastCall, lastReq>>

\* if (Object.keys(this.currentImpersonationHeaders).length > 0): issue page.route
SetupCheck(c) ==
    /\ calls[c] # NoCall /\ calls[c].pc = "check"
    /\ IF IsImpersonationActive(calls[c].helper)
       THEN calls' = [calls EXCEPT ![c].pc = "route", ![c].log = Append(@, "route")]
       ELSE calls' = [calls EXCEPT ![c].pc = "return"]
    /\ UNCHANGED <<headers, routes, lastCall, lastReq>>

\* await this.page.route('**/api/data/**', handler) takes effect
SetupRoute(c) ==
    /\ calls[c] # NoCall /\ calls[c].pc = "route"
    /\ routes' = Routed(routes, RouteHandler(calls[c].helper))
    /\ calls' = [calls EXCEPT ![c].pc = "return"]
    /\ UNCHANGED <<headers, lastCall, lastReq>>

\* the mutator's promise resolves
Return(c) ==
    /\ calls[c] # NoCall /\ calls[c].pc = "return"
    /\ lastCall' = [helper |-> calls[c].helper, op |-> calls[c].op, arg |-> calls[c].arg,
                    before |-> calls[c].before, ok |-> TRUE, log |-> calls[c].log]
    /\ calls' = [calls EXCEPT ![c] = NoCall]
    /\ UNCHANGED <<headers, routes, lastReq>>

----------------------------------------------------------------------------
(* An outgoing request of the page *)

\* headers the request leaves with: the newest matching handler continues it
\* with the request's headers overlaid by its helper's current Header Set
Forwarded(url, orig) ==
    IF MatchingRoutes(routes, url) # <<>>
    THEN Merge(orig, headers[Head(MatchingRoutes(routes, url)).owner])
    ELSE orig

Request(url, orig) ==
    /\ lastReq' = [url |-> url, orig |-> orig, sent |-> Forwarded(url, orig),
                   handled |-> MatchingRoutes(routes, url) # <<>>]
    /\ UNCHANGED <<headers, routes, calls, lastCall>>

----------------------------------------------------------------------------
(* One helper on its page, every mutator call awaited before the next *)

Next ==
    \/ UNCHANGED <<authVars, session, obsVars>> /\ Idle /\ \E h \in Helpers, id \in Str : ImpersonateUserByAzureADObjectId(h, id)
    \/ UNCHANGED <<authVars, session, obsVars>> /\ Idle /\ \E h \in Helpers, id \in Str : ImpersonateUserByUserId(h, id)
    \/ UNCHANGED <<authVars, session, obsVars>> /\ Idle /\ \E h \in Helpers : StopImpersonation(h)
    \/ UNCHANGED <<authVars, session, obsVars>> /\ \E c \in CallIds : SetupUnroute(c)
    \/ UNCHANGED <<authVars, session, obsVars>> /\ \E c \in CallIds : SetupCheck(c)
    \/ UNCHANGED <<authVars, session, obsVars>> /\ \E c \in CallIds : SetupRoute(c)
    \/ UNCHANGED <<authVars, session, obsVars>> /\ \E c \in CallIds : Return(c)
    \/ UNCHANGED <<authVars, session, obsVars>> /\ \E url \in Urls, orig \in OrigHeaders : Request(url, orig)

Spec == Init /\ [][Next]_vars

----------------------------------------------------------------------------
(* One helper, awaited mutator calls, and a caller that queries the helper *)

NextQuery ==
    \/ UNCHANGED <<authVars, session, obsVars>> /\ Idle /\ \E h \in Helpers, id \in ShortStr : ImpersonateUserByAzureADObjectId(h, id)
    \/ UNCHANGED <<authVars, session, obsVars>> /\ Idle /\ \E h \in Helpers, id \in ShortStr : ImpersonateUserByUserId(h, id)
    \/ UNCHANGED <<authVars, session, obsVars>> /\ Idle /\ \E h \in Helpers : StopImpersonation(h)
    \/ UNCHANGED <<authVars, session, obsVars>> /\ \E c \in CallIds : SetupUnroute(c)
    \/ UNCHANGED <<authVars, session, obsVars>> /\ \E c \in CallIds : SetupCheck(c)
    \/ UNCHANGED <<authVars, session, obsVars>> /\ \E c \in CallIds : SetupRoute(c)
    \/ UNCHANGED <<authVars, session, obsVars>> /\ \E c \in CallIds : Return(c)
    \/ UNCHANGED <<authVars, session>> /\ \E h \in Helpers : AskIsImpersonationActive(h)
    \/ UNCHANGED <<authVars, session>> /\ \E h \in Helpers : ReadCurrentImpersonationHeaders(h)
    \/ UNCHANGED <<authVars, session>> /\ \E name \in HeaderNames : CallerSets(name, OrigValue)
    \/ UNCHANGED <<authVars, session>> /\ \E name \in HeaderNames : CallerDeletes(name)

SpecQuery == Init /\ [][NextQuery]_vars

----------------------------------------------------------------------------
(* One helper whose caller does not await a mutator before issuing the next *)

\* a second call may start while one is in flight, a third may not
FewerThanTwoInFlight == Cardinality({c \in CallIds : calls[c] # NoCall}) < 2

NextOverlap ==
    \/ UNCHANGED <<authVars, session, obsVars>> /\ FewerThanTwoInFlight /\ \E h \in Helpers, id \in ShortStr : ImpersonateUserByAzureADObjectId(h, id)
    \/ UNCHANGED <<authVars, session, obsVars>> /\ FewerThanTwoInFlight /\ \E h \in Helpers, id \in ShortStr : ImpersonateUserByUserId(h, id)
    \/ UNCHANGED <<authVars, session, obsVars>> /\ FewerThanTwoInFlight /\ \E h \in Helpers : StopImpersonation(h)
    \/ UNCHANGED <<authVars, session, obsVars>> /\ \E c \in CallIds : SetupUnroute(c)
    \/ UNCHANGED <<authVars, session, obsVars>> /\ \E c \in CallIds : SetupCheck(c)
    \/ UNCHANGED <<authVars, session, obsVars>> /\ \E c \in CallIds : SetupRoute(c)
    \/ UNCHANGED <<authVars, session, obsVars>> /\ \E c \in CallIds : Return(c)

SpecOverlap == Init /\ [][NextOverlap]_vars

----------------------------------------------------------------------------
(* Several helpers created on the same page, every mutator call awaited *)

\* createImpersonationHelper(page): one more helper, its Header Set empty
CreateImpersonationHelper ==
    /\ Cardinality(Helpers) < MaxHelpers
    /\ headers' = [h \in Helpers \cup {Cardinality(Helpers) + 1} |->
                      IF h \in Helpers THEN headers[h] ELSE EmptyHeaders]
    /\ UNCHANGED <<routes, calls, lastCall, lastReq>>

NextTwo ==
    \/ UNCHANGED <<authVars, session, obsVars>> /\ Idle /\ CreateImpersonationHelper
    \/ UNCHANGED <<authVars, session, obsVars>> /\ Idle /\ \E h \in Helpers, id \in ShortStr : ImpersonateUserByAzureADObjectId(h, id)
    \/ UNCHANGED <<authVars, session, obsVars>> /\ Idle /\ \E h \in Helpers, id \in ShortStr : ImpersonateUserByUserId(h, id)
    \/ UNCHANGED <<authVars, session, obsVars>> /\ Idle /\ \E h \in Helpers : StopImpersonation(h)
    \/ UNCHANGED <<authVars, session, obsVars>> /\ \E c \in CallIds : SetupUnroute(c)
    \/ UNCHANGED <<authVars, session, obsVars>> /\ \E c \in CallIds : SetupCheck(c)
    \/ UNCHANGED <<authVars, session, obsVars>> /\ \E c \in CallIds : SetupRoute(c)
    \/ UNCHANGED <<authVars, session, obsVars>> /\ \E c \in CallIds : Return(c)

SpecTwo == Init /\ [][NextTwo]_vars

----------------------------------------------------------------------------
(* authenticate: one step per awaited page action *)

CredStr == StrUpTo(MaxCredLen)

\* page actions up to the submit of the password, in program order
RequiredSteps == <<"goto", "emailWait", "emailFill", "nextClick",
                   "passwordWait", "passwordFill", "submitClick">>

\* the statements inside the try block, in program order
MfaSteps == <<"otherWayWait", "otherWayClick", "otpLinkWait", "otpLinkClick",
              "totp", "otpInputWait", "otpFill", "mfaSubmitClick">>

IndexOf(seq, x) == CHOOSE i \in 1 .. Len(seq) : seq[i] = x

InSeq(seq, x) == \E i \in 1 .. Len(seq) : seq[i] = x

Logged(act, ok) == Append(pageLog, [act |-> act, ok |-> ok])

\* authenticate settles by throwing
Throw(err) ==
    /\ pc' = "threw"
    /\ thrown' = err

\* the test is `otpSecret !== undefined`: an empty secret enters the branch
AfterSubmitIfDefined == IF args.otpSecret # Undef THEN MfaSteps[1] ELSE "settle"

\* if (otpSecret) { try { ... } }
AfterSubmit == IF Truthy(args.otpSecret) THEN MfaSteps[1] ELSE "settle"

\* page.goto is issued before the arguments are validated
AuthenticateNavigatesFirst(userName, password, pageURL, otpSecret) ==
    /\ pc = "notCalled"
    /\ args' = [userName |-> userName, password |-> password, pageURL |-> pageURL,
                otpSecret |-> otpSecret]
    /\ pageLog' = Logged("goto", TRUE)
    /\ IF IsBlank(userName) \/ IsBlank(password) \/ IsBlank(pageURL)
       THEN Throw("ValidationError")
       ELSE pc' = RequiredSteps[2] /\ UNCHANGED thrown
    /\ UNCHANGED <<gs, browserOpen, snapshots>>

\* the call of authenticate up to its first await
Authenticate(userName, password, pageURL, otpSecret) ==
    /\ pc = "notCalled"
    /\ args' = [userName |-> userName, password |-> password, pageURL |-> pageURL,
                otpSecret |-> otpSecret]
    /\ IF IsBlank(userName) \/ IsBlank(password) \/ IsBlank(pageURL)
       THEN Throw("ValidationError")
       ELSE pc' = RequiredSteps[1] /\ UNCHANGED thrown
    /\ UNCHANGED <<gs, pageLog, browserOpen, snapshots>>

\* goto, email, Next, password, submit: a rejected await leaves authenticate
RequiredStep(ok) ==
    /\ InSeq(RequiredSteps, pc)
    /\ pageLog' = Logged(pc, ok)
    /\ IF ok
       THEN /\ pc' = IF IndexOf(RequiredSteps, pc) < Len(RequiredSteps)
                     THEN RequiredSteps[IndexOf(RequiredSteps, pc) + 1]
                     ELSE AfterSubmit
            /\ UNCHANGED thrown
       ELSE Throw("TimeoutError")
    /\ UNCHANGED <<gs, args, browserOpen, snapshots>>

\* there is no try/catch: a failure in the MFA branch leaves authenticate
MfaStepUncaught(ok) ==
    /\ InSeq(MfaSteps, pc)
    /\ pageLog' = Logged(pc, ok)
    /\ IF ok
       THEN /\ pc' = IF IndexOf(MfaSteps, pc) < Len(MfaSteps)
                     THEN MfaSteps[IndexOf(MfaSteps, pc) + 1]
                     ELSE "settle"
            /\ UNCHANGED thrown
       ELSE Throw("TimeoutError")
    /\ UNCHANGED <<gs, args, browserOpen, snapshots>>

\* a statement of the try block; the catch logs the error and falls through
MfaStep(ok) ==
    /\ InSeq(MfaSteps, pc)
    /\ pageLog' = Logged(pc, ok)
    /\ pc' = IF ok /\ IndexOf(MfaSteps, pc) < Len(MfaSteps)
             THEN MfaSteps[IndexOf(MfaSteps, pc) + 1]
             ELSE "settle"
    /\ UNCHANGED <<gs, args, thrown, browserOpen, snapshots>>

\* await page.waitForTimeout(1000)
Settle(ok) ==
    /\ pc = "settle"
    /\ pageLog' = Logged("settle", ok)
    /\ IF ok THEN pc' = "stayCount" /\ UNCHANGED thrown ELSE Throw("PageError")
    /\ UNCHANGED <<gs, args, browserOpen, snapshots>>

\* if ((await staySignedInBtn.count()) > 0)
StayCount(ok, count) ==
    /\ pc = "stayCount"
    /\ pageLog' = Logged("stayCount", ok)
    /\ IF ok
       THEN pc' = (IF count > 0 THEN "stayClick" ELSE "returned") /\ UNCHANGED thrown
       ELSE Throw("PageError")
    /\ UNCHANGED <<gs, args, browserOpen, snapshots>>

\* await staySignedInBtn.click()
StayClick(ok) ==
    /\ pc = "stayClick"
    /\ pageLog' = Logged("stayClick", ok)
    /\ IF ok THEN pc' = "returned" /\ UNCHANGED thrown ELSE Throw("TimeoutError")
    /\ UNCHANGED <<gs, args, browserOpen, snapshots>>

----------------------------------------------------------------------------
(* globalSetup *)

\* process.env.X ?? ''
OrEmpty(v) == IF v = Undef THEN <<>> ELSE v

EnvValues == CredStr \cup {Undef}

\* chromium.launch, newContext, newPage
GlobalSetupLaunch(ok) ==
    /\ gs = "none" /\ pc = "notCalled"
    /\ IF ok THEN gs' = "launched" /\ browserOpen' = TRUE
             ELSE gs' = "threw" /\ UNCHANGED browserOpen
    /\ UNCHANGED <<pc, args, pageLog, thrown, snapshots>>

\* await authenticate(page, userName, password, pageURL, otpSecret)
GlobalSetupAuthenticate(envURL, envUser, envPassword, envSecret) ==
    /\ gs = "launched"
    /\ Authenticate(OrEmpty(envUser), OrEmpty(envPassword), OrEmpty(envURL),
                    OrEmpty(envSecret))

\* the rejected await of authenticate leaves globalSetup
GlobalSetupPropagate ==
    /\ gs = "launched" /\ pc = "threw"
    /\ gs' = "threw"
    /\ UNCHANGED <<pc, args, pageLog, thrown, browserOpen, snapshots>>

\* the snapshot is written whether or not authenticate threw
StorageStateAlways(ok) ==
    /\ gs = "launched" /\ pc \in {"returned", "threw"}
    /\ IF ok THEN gs' = "saved" /\ snapshots' = snapshots + 1
             ELSE gs' = "threw" /\ UNCHANGED snapshots
    /\ UNCHANGED <<pc, args, pageLog, thrown, browserOpen>>

\* await context.storageState({ path: 'login/auth.json' })
StorageState(ok) ==
    /\ gs = "launched" /\ pc = "returned"
    /\ IF ok THEN gs' = "saved" /\ snapshots' = snapshots + 1
             ELSE gs' = "threw" /\ UNCHANGED snapshots
    /\ UNCHANGED <<pc, args, pageLog, thrown, browserOpen>>

\* await browser.close()
BrowserClose ==
    /\ gs = "saved"
    /\ gs' = "returned"
    /\ browserOpen' = FALSE
    /\ UNCHANGED <<pc, args, pageLog, thrown, snapshots>>

----------------------------------------------------------------------------
(* The identity provider behind the login page *)

\* The provider reacts to the two submits of the flow, and is taken at its most
\* favourable: the credentials are accepted; a submitted password either signs
\* the page in or leaves a second factor pending; a submitted passcode, when a
\* second factor is pending, signs the page in.  Nothing else changes the session.
IdentityProvider ==
    IF pc = "submitClick" /\ pc' # "threw"
    THEN session' \in {"authenticated", "mfaPending"}
    ELSE IF pc = "mfaSubmitClick" /\ pageLog'[Len(pageLog')].ok /\ session = "mfaPending"
         THEN session' = "authenticated"
         ELSE UNCHANGED session

----------------------------------------------------------------------------
(* One run of the login: globalSetup, or a test calling authenticate itself *)

NextAuth ==
    \/ UNCHANGED <<impVars, obsVars>> /\ gs = "none" /\ pc = "notCalled" /\
         \E u \in CredStr, p \in CredStr, url \in CredStr, otp \in CredStr \cup {Undef} :
             Authenticate(u, p, url, otp) /\ IdentityProvider
    \/ UNCHANGED <<impVars, obsVars>> /\ \E ok \in BOOLEAN : GlobalSetupLaunch(ok) /\ IdentityProvider
    \/ UNCHANGED <<impVars, obsVars>> /\ gs = "launched" /\ pc = "notCalled" /\ \E eu \in EnvValues, en \in EnvValues, ep \in EnvValues, es \in EnvValues :
             GlobalSetupAuthenticate(eu, en, ep, es) /\ IdentityProvider
    \/ UNCHANGED <<impVars, obsVars>> /\ \E ok \in BOOLEAN : RequiredStep(ok) /\ IdentityProvider
    \/ UNCHANGED <<impVars, obsVars>> /\ \E ok \in BOOLEAN : MfaStep(ok) /\ IdentityProvider
    \/ UNCHANGED <<impVars, obsVars>> /\ \E ok \in BOOLEAN : Settle(ok) /\ IdentityProvider
    \/ UNCHANGED <<impVars, obsVars>> /\ \E ok \in BOOLEAN, count \in 0 .. 1 : StayCount(ok, count) /\ IdentityProvider
    \/ UNCHANGED <<impVars, obsVars>> /\ \E ok \in BOOLEAN : StayClick(ok) /\ IdentityProvider
    \/ UNCHANGED <<impVars, obsVars>> /\ GlobalSetupPropagate /\ IdentityProvider
    \/ UNCHANGED <<impVars, obsVars>> /\ \E ok \in BOOLEAN : StorageState(ok) /\ IdentityProvider
    \/ UNCHANGED <<impVars, obsVars>> /\ BrowserClose /\ IdentityProvider

SpecAuth == Init /\ [][NextAuth]_vars

----------------------------------------------------------------------------
(* Properties of the Impersonation Controller, checked under Spec *)

ImpersonateOps == {OpAzureAD, OpUserId}

\* empty or made of white space only
AllSpaces(s) == \A i \in 1 .. Len(s) : s[i] = " "

\* the helper has a handler registered on the API path pattern
RuleInstalled(h) == \E i \in 1 .. Len(routes) : routes[i] = [url |-> ApiPattern, owner |-> h]

\* no mutator call is in progress and the last one to settle was a success of op
Returned(op) == Idle /\ lastCall.op = op /\ lastCall.ok

\* this step sends a request that matches the API path pattern
ApiRequestStep == lastReq' # lastReq /\ lastReq'.url = "/api/data/contacts"

\* C2: a call of impersonateUserByUserId or impersonateUserByAzureADObjectId with
\* an empty or whitespace-only id is rejected, and the step changes neither the
\* Header Set nor the route rules nor issues any engine call (no call is in flight
\* afterwards and the rejected call's log of engine calls is empty).
C2_BlankIdRejectedNoEffect ==
    [][ ( \/ /\ lastCall' # lastCall
             /\ lastCall'.op \in ImpersonateOps
             /\ AllSpaces(lastCall'.arg)
          \/ \E c \in CallIds : /\ calls'[c] # calls[c]
                                /\ calls'[c] # NoCall
                                /\ calls'[c].op \in ImpersonateOps
                                /\ AllSpaces(calls'[c].arg) )
        => /\ ~lastCall'.ok
           /\ lastCall'.log = <<>>
           /\ UNCHANGED <<headers, routes, calls>> ]_vars

\* a whitespace-only id was rejected while an impersonation was active
C2_Witness ==
    /\ lastCall.op = OpUserId /\ ~lastCall.ok
    /\ lastCall.arg # <<>> /\ AllSpaces(lastCall.arg)
    /\ CallerObjectId \in DOMAIN headers[1]
    /\ DOMAIN headers[1] = lastCall.before
    /\ RuleInstalled(1)

\* C3: whatever calls were made, the Header Set holds at most one entry and
\* never both CallerObjectId and MSCRMCallerID.
C3_AtMostOneHeader ==
    \A h \in Helpers :
        /\ Cardinality(DOMAIN headers[h]) <= 1
        /\ ~({CallerObjectId, MSCRMCallerID} \subseteq DOMAIN headers[h])

\* an impersonation by object id replaced one by user id
C3_Witness ==
    /\ Returned(OpAzureAD)
    /\ MSCRMCallerID \in lastCall.before
    /\ DOMAIN headers[1] = {CallerObjectId}

\* C4 as stated: in every state, also between the awaited steps of a mutator,
\* the Header Set is non-empty exactly when the helper's rule is installed.
C4_RuleIffHeadersEverywhere ==
    \A h \in Helpers : IsImpersonationActive(h) <=> RuleInstalled(h)

\* C4 amended: whenever no mutator call is in progress, the Header Set is
\* non-empty exactly when the helper's rule is installed.
C4_RuleIffHeadersWhenIdle ==
    Idle => \A h \in Helpers : IsImpersonationActive(h) <=> RuleInstalled(h)

\* an impersonation has returned and its rule is installed
C4_Witness ==
    /\ Idle /\ lastCall # NoCall /\ lastCall.ok
    /\ lastCall.log = <<"unroute", "route">>
    /\ IsImpersonationActive(1) /\ RuleInstalled(1)

\* C5: once impersonateUserByAzureADObjectId(id) has returned, the Header Set read
\* back is exactly {CallerObjectId: id}, and every request matching the API path
\* pattern leaves with its original headers except that CallerObjectId carries id.
C5_ObjectIdInjected ==
    [][ Returned(OpAzureAD)' =>
          /\ DOMAIN GetCurrentImpersonationHeaders(lastCall.helper)' = {CallerObjectId}
          /\ GetCurrentImpersonationHeaders(lastCall.helper)'[CallerObjectId] = lastCall'.arg
          /\ ApiRequestStep =>
               /\ DOMAIN lastReq'.sent = DOMAIN lastReq'.orig \cup {CallerObjectId}
               /\ lastReq'.sent[CallerObjectId] = lastCall'.arg
               /\ \A k \in DOMAIN lastReq'.orig \ {CallerObjectId} :
                      lastReq'.sent[k] = lastReq'.orig[k] ]_vars

\* a request that already had a CallerObjectId header left with the id instead
C5_Witness ==
    /\ Returned(OpAzureAD)
    /\ lastReq # NoReq /\ lastReq.handled
    /\ DOMAIN lastReq.orig = {CallerObjectId, Accept}
    /\ lastReq.sent[CallerObjectId] = lastCall.arg
    /\ lastReq.sent[Accept] = OrigValue

\* C6: once stopImpersonation() has returned, isImpersonationActive() is false and
\* every request sent before the next mutator call leaves with its original headers.
C6_StopRestoresRequests ==
    [][ Returned(OpStop)' =>
          /\ ~IsImpersonationActive(lastCall.helper)'
          /\ lastReq' # lastReq => lastReq'.sent = lastReq'.orig ]_vars

\* stop ended an active impersonation and an API request left untouched
C6_Witness ==
    /\ Returned(OpStop)
    /\ lastCall.before # {}
    /\ lastReq # NoReq /\ lastReq.url = "/api/data/contacts"
    /\ ~lastReq.handled
    /\ lastReq.sent = lastReq.orig

\* the impersonation key an operation writes, and the key of the other operation
KeyOf(op) == IF op = OpAzureAD THEN CallerObjectId ELSE MSCRMCallerID
OtherKeyOf(op) == IF op = OpAzureAD THEN MSCRMCallerID ELSE CallerObjectId

\* C7: once an impersonation that followed an earlier one has returned, the Header
\* Set is exactly the new entry, and API requests carry the new identifier under
\* the new key while the other key keeps whatever the request had by itself.
C7_LastWriterWins ==
    [][ \A op \in ImpersonateOps :
          (Returned(op)' /\ lastCall'.before # {}) =>
             /\ DOMAIN headers'[lastCall'.helper] = {KeyOf(op)}
             /\ headers'[lastCall'.helper][KeyOf(op)] = lastCall'.arg
             /\ ApiRequestStep =>
                  /\ lastReq'.sent[KeyOf(op)] = lastCall'.arg
                  /\ OtherKeyOf(op) \in DOMAIN lastReq'.sent
                       => /\ OtherKeyOf(op) \in DOMAIN lastReq'.orig
                          /\ lastReq'.sent[OtherKeyOf(op)] = lastReq'.orig[OtherKeyOf(op)] ]_vars

\* a user-id impersonation replaced an object-id one and a request got only it
C7_Witness ==
    /\ Returned(OpUserId)
    /\ CallerObjectId \in lastCall.before
    /\ lastReq # NoReq /\ lastReq.handled
    /\ DOMAIN lastReq.sent = {MSCRMCallerID, Accept}
    /\ lastReq.sent[MSCRMCallerID] = lastCall.arg
    /\ CallerObjectId \notin DOMAIN lastReq.sent

----------------------------------------------------------------------------
(* Properties of authenticate and globalSetup, checked under SpecAuth *)

MfaActs == {MfaSteps[i] : i \in 1 .. Len(MfaSteps)}

Called == pc # "notCalled"

\* C1: a call whose userName, password or pageURL is empty or whitespace-only has
\* thrown the validation error, and nothing was done on the page.
C1_BlankCredentialNoPageAction ==
    (Called /\ (AllSpaces(args.userName) \/ AllSpaces(args.password) \/ AllSpaces(args.pageURL)))
        => /\ pc = "threw"
           /\ thrown = "ValidationError"
           /\ pageLog = <<>>

\* a whitespace-only password was rejected inside globalSetup
C1_Witness ==
    /\ gs = "launched" /\ pc = "threw" /\ thrown = "ValidationError"
    /\ args.userName = <<"a">> /\ args.password = <<" ">> /\ args.pageURL = <<"a">>
    /\ pageLog = <<>>

\* C8: in a run without OTP secret (undefined, or the empty string globalSetup
\* passes) no statement of the MFA branch is executed or about to be executed,
\* so no wait for the alternate sign-in control can fail.
C8_NoSecretNoMfa ==
    (Called /\ args.otpSecret \in {Undef, <<>>})
        => /\ pc \notin MfaActs
           /\ \A i \in 1 .. Len(pageLog) : pageLog[i].act \notin MfaActs

\* globalSetup ran the whole login with M365_OTP_SECRET unset
C8_Witness ==
    /\ gs = "launched" /\ pc = "returned" /\ thrown = "none"
    /\ args.otpSecret = <<>>
    /\ pageLog # <<>> /\ pageLog[Len(pageLog)].act = "stayCount"

\* C9: a step of the MFA branch that fails throws nothing out of authenticate;
\* the rest of the branch is skipped and the settling delay comes next.
C9_MfaFailureSwallowed ==
    [][ (pc \in MfaActs /\ pageLog' # pageLog /\ ~pageLog'[Len(pageLog')].ok)
          => /\ pc' = "settle"
             /\ thrown' = "none"
             /\ Truthy(args.otpSecret) ]_vars

\* the passcode input never showed up and authenticate still returned
C9_Witness ==
    /\ pc = "returned" /\ thrown = "none"
    /\ \E i \in 1 .. Len(pageLog) - 2 :
          /\ pageLog[i] = [act |-> "otpInputWait", ok |-> FALSE]
          /\ pageLog[i + 1] = [act |-> "settle", ok |-> TRUE]
          /\ pageLog[i + 2] = [act |-> "stayCount", ok |-> TRUE]

\* C10: a failed wait for the email or password input is the last thing done on
\* the page, leaves authenticate as a timeout error, and globalSetup neither
\* saves nor returns; a snapshot is written at most once, only after authenticate
\* returned without throwing.
C10_RequiredTimeoutNoSnapshot ==
    /\ \A i \in 1 .. Len(pageLog) :
          (pageLog[i].act \in {"emailWait", "passwordWait"} /\ ~pageLog[i].ok)
              => /\ i = Len(pageLog)
                 /\ pc = "threw" /\ thrown = "TimeoutError"
                 /\ snapshots = 0
                 /\ gs \in {"none", "launched", "threw"}
    /\ snapshots <= 1
    /\ snapshots > 0 => (pc = "returned" /\ thrown = "none")

\* the password input never showed up and globalSetup threw without a snapshot
C10_Witness ==
    /\ gs = "threw" /\ pc = "threw" /\ thrown = "TimeoutError"
    /\ pageLog[Len(pageLog)] = [act |-> "passwordWait", ok |-> FALSE]
    /\ snapshots = 0

\* C11: whenever authenticate has returned without throwing, the page holds an
\* authenticated session, so a snapshot is only ever taken of such a session.
C11_ReturnedMeansAuthenticated ==
    /\ pc = "returned" => session = "authenticated"
    /\ snapshots > 0 => session = "authenticated"

\* C18: once globalSetup has ended, by returning or by throwing, the browser it
\* launched is closed.
C18_BrowserClosedWhenSetupEnds ==
    gs \in {"returned", "threw"} => ~browserOpen

----------------------------------------------------------------------------
(* Order of the engine calls of a mutator, checked under Spec *)

\* the Header Set a successful call of op with arg assigns
AssignedBy(op, arg) ==
    IF op = OpStop THEN EmptyHeaders ELSE [k \in {KeyOf(op)} |-> arg]

\* C15: a mutator call in progress has already assigned its Header Set; it issues
\* one unroute first, whatever was registered, and then a route exactly when the
\* Header Set is non-empty; it reaches its return only with both completed, so a
\* returned call leaves the rule installed exactly when the Header Set is non-empty.
C15_UnrouteThenConditionalRoute ==
    /\ \A c \in CallIds : calls[c] # NoCall =>
          LET h == calls[c].helper
              log == calls[c].log
          IN /\ headers[h] = AssignedBy(calls[c].op, calls[c].arg)
             /\ calls[c].pc \in {"unroute", "check"} => log = <<"unroute">>
             /\ calls[c].pc = "check" => ~RuleInstalled(h)
             /\ calls[c].pc = "route" =>
                   log = <<"unroute", "route">> /\ headers[h] # EmptyHeaders /\ ~RuleInstalled(h)
             /\ calls[c].pc = "return" =>
                   /\ log = IF headers[h] # EmptyHeaders THEN <<"unroute", "route">>
                                                         ELSE <<"unroute">>
                   /\ RuleInstalled(h) <=> headers[h] # EmptyHeaders
    /\ (Idle /\ lastCall # NoCall /\ lastCall.ok) =>
          LET h == lastCall.helper
          IN /\ headers[h] = AssignedBy(lastCall.op, lastCall.arg)
             /\ lastCall.log = IF headers[h] # EmptyHeaders THEN <<"unroute", "route">>
                                                            ELSE <<"unroute">>
             /\ RuleInstalled(h) <=> headers[h] # EmptyHeaders
             /\ Len(routes) <= 1

\* stopImpersonation returned on a helper that had no rule: one unroute, no route
C15_Witness ==
    /\ Idle /\ lastCall.op = OpStop /\ lastCall.ok
    /\ lastCall.before = {}
    /\ lastCall.log = <<"unroute">>
    /\ routes = <<>>

----------------------------------------------------------------------------
(* Properties of the two queries, checked under SpecQuery *)

\* C12: an answer of isImpersonationActive() is true exactly when the Header Set
\* is non-empty, and the call changes neither the Header Set nor the route rules.
C12_ActiveIffNonEmpty ==
    [][ active' # active =>
          /\ active'.result <=> (headers[active'.helper] # EmptyHeaders)
          /\ UNCHANGED <<headers, routes, calls, lastCall, view>> ]_vars

\* the helper answered true while an impersonation was set up
C12_Witness ==
    /\ active # NoAnswer /\ active.result
    /\ Idle /\ lastCall # NoCall /\ lastCall.ok
    /\ headers[active.helper] # EmptyHeaders

\* C13: getCurrentImpersonationHeaders() hands out a mapping equal to the Header
\* Set, and a change the caller then makes to that mapping changes neither the
\* Header Set, nor what isImpersonationActive() answers, nor what requests get.
C13_ReturnedCopyIsDetached ==
    [][ /\ (view' # view /\ ~view'.touched) =>
              /\ view'.obj = headers[view'.helper]
              /\ UNCHANGED <<headers, routes, calls, lastCall, active>>
        /\ (view' # view /\ view'.touched) =>
              /\ UNCHANGED <<headers, routes>>
              /\ \A h \in Helpers : IsImpersonationActive(h)' <=> IsImpersonationActive(h)
              /\ \A url \in Urls, orig \in OrigHeaders :
                     Forwarded(url, orig)' = Forwarded(url, orig) ]_vars

\* the caller emptied the mapping it got and the impersonation is still in place
C13_Witness ==
    /\ view # NoView /\ view.touched /\ view.obj = EmptyHeaders
    /\ Idle /\ DOMAIN headers[view.helper] = {CallerObjectId}
    /\ RuleInstalled(view.helper)

----------------------------------------------------------------------------
(* Overlapping mutator calls, checked under SpecOverlap *)

\* C16 as stated: once the overlapping calls have completed, at most one rule is
\* registered, and one is registered exactly when the Header Set is non-empty.
C16_OneRuleAfterOverlap ==
    Idle => /\ Len(routes) <= 1
            /\ \A h \in Helpers : RuleInstalled(h) <=> IsImpersonationActive(h)

\* C16 amended: once the overlapping calls have completed, a non-empty Header Set
\* has a rule registered, and every request leaves as its original headers
\* overlaid by the final Header Set, whatever number of rules is registered.
C16_FinalHeadersInjectedAfterOverlap ==
    Idle => /\ \A h \in Helpers : IsImpersonationActive(h) => RuleInstalled(h)
            /\ \A orig \in OrigHeaders :
                  /\ Forwarded("/api/data/contacts", orig) = Merge(orig, headers[1])
                  /\ Forwarded("/main.aspx", orig) = orig

\* two overlapping impersonate calls have completed and left two rules
C16_Witness ==
    /\ Idle /\ Len(routes) = 2
    /\ headers[1] # EmptyHeaders

----------------------------------------------------------------------------
(* Helpers sharing a page, checked under SpecTwo *)

\* C17 as stated: after awaited calls on the helpers of a page, every helper with
\* a non-empty Header Set has its rule installed and its header reaches requests.
C17_EveryHelperKeepsItsRule ==
    Idle => \A h \in Helpers : IsImpersonationActive(h) =>
               /\ RuleInstalled(h)
               /\ \A orig \in OrigHeaders, k \in DOMAIN headers[h] :
                     /\ k \in DOMAIN Forwarded("/api/data/contacts", orig)
                     /\ Forwarded("/api/data/contacts", orig)[k] = headers[h][k]

\* C17 amended: after awaited calls on the helpers of a page at most one rule is
\* registered and its helper's Header Set is non-empty; after a successful call
\* the rule can only be that of the helper called last, it exists exactly when
\* that helper's Header Set is non-empty, and requests get that Header Set only.
C17_OnlyLastHelperKeepsItsRule ==
    Idle => /\ Len(routes) <= 1
            /\ \A h \in Helpers : RuleInstalled(h) => IsImpersonationActive(h)
            /\ (lastCall # NoCall /\ lastCall.ok) =>
                  /\ \A h \in Helpers : RuleInstalled(h) => h = lastCall.helper
                  /\ RuleInstalled(lastCall.helper) <=> IsImpersonationActive(lastCall.helper)
                  /\ \A orig \in OrigHeaders :
                        Forwarded("/api/data/contacts", orig)
                            = Merge(orig, headers[lastCall.helper])

\* the second helper's call removed the rule of the first, still impersonating,
\* and requests get the second helper's header only
C17_Witness ==
    /\ Idle /\ lastCall # NoCall /\ lastCall.ok /\ lastCall.helper = 2
    /\ DOMAIN headers[1] = {CallerObjectId} /\ ~RuleInstalled(1)
    /\ DOMAIN headers[2] = {MSCRMCallerID} /\ RuleInstalled(2)
    /\ \A orig \in OrigHeaders :
          Forwarded("/api/data/contacts", orig) = Merge(orig, headers[2])
====
